---------------------------- MODULE Spec2Model ----------------------------
(***************************************************************************)
(* Model of solardatatools/algorithms/shade.py and soiling.py.             *)
(*                                                                         *)
(* Three independent parts share the module:                               *)
(*   - ShadeAnalysis objects (run / analyze_yearly_energy caching),        *)
(*   - batch_process (resampling with energy renormalisation),             *)
(*   - the two iteratively reweighted soiling decompositions.              *)
(* The convex solver (cvxpy + backend) is an external collaborator: every  *)
(* solve is a nondeterministic choice of a termination status and, when    *)
(* the status carries values, of a point of the feasible set.              *)
(***************************************************************************)
EXTENDS Integers, Sequences, FiniteSets, TLC

VARIABLES
    obj,        \* ShadeAnalysis objects: object id -> record of attributes
    trace,      \* per object: what the last run() did (observation only)
    bp,         \* batch_process: the call's input and its result
    so          \* one call of a soiling decomposition: arguments, locals, outcome

-----------------------------------------------------------------------------
(* Python values *)

None == [tag |-> "None"]
Unset == [tag |-> "Unset"]           \* attribute never assigned

Min(a, b) == IF a <= b THEN a ELSE b
Abs(x) == IF x >= 0 THEN x ELSE -x

RECURSIVE Pow2(_)
Pow2(k) == IF k = 0 THEN 1 ELSE 2 * Pow2(k - 1)

-----------------------------------------------------------------------------
(* ShadeAnalysis *)

Objs == {"a", "b"}
MaxCount == 2                        \* saturation of the observation counters

DefaultPower == 8
PowerArgs == {2, DefaultPower}
SolverArgs == {"MOSEK", "ECOS"}
DefaultSolver == "MOSEK"

\* Termination statuses a cvxpy solve can leave in problem.status; a backend
\* failure raises SolverError instead and leaves the problem unsolved.
ValueStatuses == {"optimal", "optimal_inaccurate"}
NoValueStatuses == {"infeasible", "unbounded"}
SolveOutcomes == ValueStatuses \cup NoValueStatuses \cup {"SolverError"}
RunEnvs == {"no_daytime", "few_buckets"} \cup SolveOutcomes

\* ShadeAnalysis.__init__
NewObject ==
    [data_normalized |-> None, data_transformed |-> None, osd_problem |-> None,
     daily_shade_loss |-> None, daily_clear_energy |-> None, avg_energy |-> None,
     clear_sky_component |-> Unset, shade_component |-> Unset,
     daily_modeled_energy |-> Unset]

NewTrace ==
    [result |-> "none",         \* how the last run() ended
     carried |-> "none",        \* solver status carried by the exception it raised
     solved |-> FALSE,          \* the last run() called solve()
     skipped |-> FALSE,         \* the last run() found has_run true
     transforms |-> 0,          \* calls of transform_data so far
     solves |-> 0,              \* calls of solve() so far
     status |-> "none",         \* how the last solve() ended
     situation |-> "not_run",   \* not_run / failed / succeeded
     analyze |-> "none"]        \* how the last analyze_yearly_energy() ended

\* ShadeAnalysis.has_run
has_run(o) ==
    /\ obj[o].data_normalized # None
    /\ obj[o].data_transformed # None
    /\ obj[o].osd_problem # None

\* cvx.diff(x, k, axis) raises ValueError unless k < x.shape[axis]; the
\* problem of make_osd_problem takes a 4th difference along the 2^power axis
\* and 2nd differences along the declination axis.
DiffOrder == 4
make_osd_problem_raises(power, env) ==
    Pow2(power) <= DiffOrder \/ env = "few_buckets"

\* value of a named variable of the problem after solve()
VariableValue(prob, name) ==
    IF prob.status \in ValueStatuses
        THEN [tag |-> "value", name |-> name, status |-> prob.status]
        ELSE None

Saturate(n) == IF n < MaxCount THEN n + 1 ELSE n

\* run() when has_run is true: only lines 40-42 execute
CachedRun(o) ==
    LET prob == obj[o].osd_problem IN
    [o |-> [obj[o] EXCEPT
              !.clear_sky_component = VariableValue(prob, "clear-sky"),
              !.shade_component = VariableValue(prob, "shade")],
     t |-> [trace[o] EXCEPT !.result = "returned", !.carried = "none",
                            !.solved = FALSE, !.skipped = TRUE]]

\* run() when has_run is false: lines 35-42
\* env says what the data handler and the solver make of the call:
\*   "no_daytime"  - a day has fewer than two daytime samples, so that
\*                   transform_data (batch_process) raises
\*   "few_buckets" - the declination surface has too few rows for the
\*                   2nd differences, so that make_osd_problem raises
\*   otherwise     - how solve() ends
FreshRun(o, power, solver, env) ==
    IF env = "no_daytime" THEN
        [o |-> obj[o],
         t |-> [trace[o] EXCEPT
                  !.result = "ValueError", !.carried = "none",
                  !.solved = FALSE, !.skipped = FALSE,
                  !.transforms = Saturate(@), !.situation = "failed"]]
    ELSE
        LET surf == [tag |-> "surface", power |-> power]
            o1 == [obj[o] EXCEPT !.data_normalized = surf,
                                 !.data_transformed = surf]
        IN
        IF make_osd_problem_raises(power, env) THEN
            [o |-> o1,
             t |-> [trace[o] EXCEPT
                      !.result = "ValueError", !.carried = "none",
                      !.solved = FALSE, !.skipped = FALSE,
                      !.transforms = Saturate(@), !.situation = "failed"]]
        ELSE IF env = "SolverError" THEN
            [o |-> [o1 EXCEPT !.osd_problem =
                      [tag |-> "problem", solver |-> solver, status |-> "unsolved"]],
             t |-> [trace[o] EXCEPT
                      !.result = "SolverError", !.carried = "none",
                      !.solved = TRUE, !.skipped = FALSE,
                      !.transforms = Saturate(@), !.solves = Saturate(@),
                      !.situation = "failed", !.status = "SolverError"]]
        ELSE
            LET prob == [tag |-> "problem", solver |-> solver, status |-> env] IN
            [o |-> [o1 EXCEPT
                      !.osd_problem = prob,
                      !.clear_sky_component = VariableValue(prob, "clear-sky"),
                      !.shade_component = VariableValue(prob, "shade")],
             t |-> [trace[o] EXCEPT
                      !.result = "returned", !.carried = "none",
                      !.solved = TRUE, !.skipped = FALSE,
                      !.transforms = Saturate(@), !.solves = Saturate(@),
                      !.situation = IF env = "optimal" THEN "succeeded"
                                                           ELSE "failed",
                      !.status = env]]

\* a run() that ignores has_run and always transforms and solves
RunEffectAlways(o, power, solver, env) ==
    FreshRun(o, power, solver, env)

\* The attributes and the observation of object o after run(power, solver)
RunEffect(o, power, solver, env) ==
    IF has_run(o)
        THEN CachedRun(o)
        ELSE FreshRun(o, power, solver, env)

\* ShadeAnalysis.run(power, solver, verbose)
run(o, power, solver, verbose) ==
    \E env \in RunEnvs :
        LET e == RunEffect(o, power, solver, env) IN
        /\ obj' = [obj EXCEPT ![o] = e.o]
        /\ trace' = [trace EXCEPT ![o] = e.t]
        /\ UNCHANGED <<bp, so>>

\* what analyze_yearly_energy does after its has_run test: the run() it makes
\* when has_run is false may raise, which ends the call; otherwise it reads
\* the two component attributes (np.sum(..., axis=1) raises on None, the
\* attribute access raises when run() never assigned them).
AnalyzeEffect(o, env) ==
    LET ran == ~has_run(o)
        e == IF ran
                THEN RunEffect(o, DefaultPower, DefaultSolver, env)
                ELSE [o |-> obj[o], t |-> trace[o]]
        propagated == ran /\ e.t.result # "returned"
        usable == /\ e.o.shade_component.tag = "value"
                  /\ e.o.clear_sky_component.tag = "value"
        series == [tag |-> "value", name |-> "series",
                   status |-> e.o.osd_problem.status]
    IN
    IF propagated THEN [o |-> e.o, t |-> [e.t EXCEPT !.analyze = "run_raised"]]
    ELSE IF ~usable THEN
        [o |-> e.o,
         t |-> [e.t EXCEPT !.analyze =
                  IF ran THEN "raised_after_solve" ELSE "raised_solve_skipped"]]
    ELSE
        [o |-> [e.o EXCEPT !.daily_shade_loss = series,
                           !.daily_clear_energy = series,
                           !.daily_modeled_energy = series,
                           !.avg_energy = [tag |-> "value", name |-> "avg_energy",
                                           status |-> "data"]],
         t |-> [e.t EXCEPT !.analyze = "returned"]]

\* ShadeAnalysis.analyze_yearly_energy()
analyze_yearly_energy(o) ==
    \E env \in RunEnvs :
        LET e == AnalyzeEffect(o, env) IN
        /\ obj' = [obj EXCEPT ![o] = e.o]
        /\ trace' = [trace EXCEPT ![o] = e.t]
        /\ UNCHANGED <<bp, so>>

-----------------------------------------------------------------------------
(* batch_process *)

NumRows == 3                         \* intra-day samples per day
NumCols == 2                         \* days
MaxVal == 2                          \* power readings are 0 .. MaxVal
MaxPower == 2                        \* resolution parameter is 1 .. MaxPower

Rows == 1 .. NumRows
Cols == 1 .. NumCols
Column == [Rows -> 0 .. MaxVal]
MaskColumn == [Rows -> BOOLEAN]

RECURSIVE SumSeq(_)
SumSeq(s) == IF Len(s) = 0 THEN 0 ELSE Head(s) + SumSeq(Tail(s))

RECURSIVE SumFn(_, _)
SumFn(f, n) == IF n = 0 THEN 0 ELSE f[n] + SumFn(f, n - 1)

\* y[msk]: the entries of column y at the rows where msk is true, in order
RECURSIVE Masked(_, _, _)
Masked(y, msk, r) ==
    IF r > NumRows THEN <<>>
    ELSE (IF msk[r] THEN <<y[r]>> ELSE <<>>) \o Masked(y, msk, r + 1)

\* energy = np.sum(y)
energy(y, msk) == SumFn(y, NumRows)

\* interp1d(linspace(0,1,M), ym)(linspace(0,1,N))[j], j = 0 .. N-1, times
\* (N - 1): linear interpolation on the uniform grids, kept in integers.
Resampled(ym, N, j) ==
    LET M == Len(ym)
        q == j * (M - 1)
        k == q \div (N - 1)
        r == q % (N - 1)
    IN  IF r = 0 THEN ym[k + 1] * (N - 1)
        ELSE ym[k + 1] * (N - 1) + (ym[k + 2] - ym[k + 1]) * r

\* One column of the output, as exact rationals num[j] / den.  "raises" when
\* interp1d cannot be built or evaluated on fewer than two daytime samples.
ProcessColumn(y, msk, power) ==
    LET N == Pow2(power)
        ym == Masked(y, msk, 1)
        rs == [j \in 1 .. N |-> Resampled(ym, N, j - 1)]
        total == SumSeq(rs)
    IN  IF Len(ym) < 2 THEN [tag |-> "raises"]
        ELSE IF total > 0
            THEN [tag |-> "column", scaled |-> TRUE,
                  num |-> [j \in 1 .. N |-> rs[j] * energy(y, msk)], den |-> total]
            ELSE [tag |-> "column", scaled |-> FALSE,
                  num |-> [j \in 1 .. N |-> 0], den |-> 1]

\* batch_process(data, mask, power)
batch_process ==
    /\ bp.pc = "call"
    /\ LET cols == [c \in Cols |-> ProcessColumn(bp.data[c], bp.mask[c], bp.power)] IN
       bp' = [bp EXCEPT !.pc = "done",
                        !.result = IF \E c \in Cols : cols[c].tag = "raises"
                                      THEN [tag |-> "ValueError"]
                                      ELSE [tag |-> "output", cols |-> cols]]
    /\ UNCHANGED <<obj, trace, so>>

-----------------------------------------------------------------------------
(* soiling_seperation_algorithm_v2 and soiling_seperation *)

\* Values of the decomposition are fixed-point numbers in units of 1e-5.
Unit == 10 ^ 5
eps_v2 == 1                          \* eps = 1e-5
eps_raw == Unit \div 100             \* eps = .01
ReweightScale == 100                 \* the factor 1e2 of the raw variant
FlatTol == 5                         \* 5e-5
DefaultSoilingMax == Unit            \* soiling_max = 1.0
YearLen == 365

MaxTrack == 3                        \* entries of each component that are followed
MaxIter == 3                         \* iterations is 1 .. MaxIter

Lens == {3, 274, 400}                \* len(observed)
SoilingMaxArgs == {0, DefaultSoilingMax}
SoilVals == {-6, 0, 5}               \* values an entry of a soiling trend takes
ErrVals == {0, 7}                    \* values an entry of the v2 error term takes

Tracked(n) == 1 .. Min(n, MaxTrack)
Diff2Pos(n) == 1 .. (Min(n, MaxTrack) - 2)

\* cvx.diff(x, k=1).value and cvx.diff(x, k=2).value on the followed entries
Diff1(x) == [p \in 1 .. (Len(x) - 1) |-> x[p + 1] - x[p]]
Diff2(x) == Diff1(Diff1(x))

\* n < 0.75 * 365
ShortSeries(n) == 4 * n < 3 * YearLen

\* a weight is the rational num / den
Ones(n) == [k \in Diff2Pos(n) |-> [num |-> 1, den |-> 1]]

\* w = 1 / (eps + np.abs(cvx.diff(s1, k=2).value)), s1 being the error term
Reweight_v2(sol) ==
    [k \in 1 .. Len(Diff2(sol.s1)) |->
        [num |-> Unit, den |-> eps_v2 + Abs(Diff2(sol.s1)[k])]]

\* w.value = 1 / (eps + 1e2 * np.abs(cvx.diff(s1, k=2).value)), s1 being the
\* soiling term
Reweight_raw(sol) ==
    [k \in 1 .. Len(Diff2(sol.s1)) |->
        [num |-> Unit, den |-> eps_raw + ReweightScale * Abs(Diff2(sol.s1)[k])]]

ZeroSetStrict(sol) ==
    {p \in 1 .. Len(Diff1(sol.s1)) : Abs(Diff1(sol.s1)[p]) < FlatTol}

\* zero_set = np.abs(cvx.diff(s1, k=1).value) <= 5e-5
ZeroSet(sol) ==
    {p \in 1 .. Len(Diff1(sol.s1)) : Abs(Diff1(sol.s1)[p]) <= FlatTol}

\* The constraint list of one iteration, by name.
Constraints_v2 ==
    {"reconstruct", "periodic", "zero_mean", "soiling_nonpos", "deg_linear",
     "deg_anchor"}

Constraints_raw(n, degradation_term, zero_set) ==
    {"reconstruct", "periodic", "zero_mean", "soiling_cap"}
    \cup (IF degradation_term THEN {"deg_linear", "deg_anchor"} ELSE {"deg_zero"})
    \cup (IF Cardinality(zero_set) > 0 THEN {"freeze"} ELSE {})
    \cup (IF ShortSeries(n) THEN {"s2_zero"} ELSE {})

\* What a solve can return on the followed entries.  The residual (raw) and
\* the error term (v2) are free, so the other constraints do not restrict
\* these entries; an equality constraint is met to within SolverTol.
SolverTol == FlatTol

Feasible_v2(n) ==
    {sol \in [s1 : [Tracked(n) -> ErrVals], s3 : [Tracked(n) -> SoilVals]] :
        \A p \in Tracked(n) : sol.s3[p] <= 0}

Feasible_raw_nocap(n, soiling_max, frozen) ==
    {sol \in [s1 : [Tracked(n) -> SoilVals]] :
        \A p \in frozen : Abs(sol.s1[p + 1] - sol.s1[p]) <= SolverTol}

Feasible_raw(n, soiling_max, frozen) ==
    {sol \in [s1 : [Tracked(n) -> SoilVals]] :
        /\ \A p \in Tracked(n) : sol.s1[p] <= soiling_max
        /\ \A p \in frozen : Abs(sol.s1[p + 1] - sol.s1[p]) <= SolverTol}

NoError == [kind |-> "none", iteration |-> -1, status |-> "none"]
NoProblem == [tag |-> "None", cons |-> {}, frozen |-> {}, w |-> <<>>]

Idle ==
    [pc |-> "idle", variant |-> "none", n |-> 0, soiling_max |-> 0,
     degradation_term |-> FALSE, iterations |-> 0, i |-> 0,
     w |-> <<>>, zero_set |-> {}, prob |-> NoProblem, sol |-> None,
     everFrozen |-> {},              \* positions frozen in some problem so far
     solves |-> 0,                   \* calls of problem.solve so far
     badAt |-> -1, badStatus |-> "none",  \* first solve that was not optimal
     error |-> NoError]              \* the exception that ended the call

\* soiling_seperation_algorithm_v2(observed, iterations): lines 13-23
call_v2(n, iterations) ==
    /\ so.pc = "idle"
    /\ so' = [Idle EXCEPT !.pc = "loop", !.variant = "v2", !.n = n,
                          !.iterations = iterations, !.w = Ones(n)]
    /\ UNCHANGED <<obj, trace, bp>>

\* soiling_seperation(observed, degradation_term, iterations, soiling_max):
\* lines 75-90
call_raw(n, degradation_term, iterations, soiling_max) ==
    /\ so.pc = "idle"
    /\ so' = [Idle EXCEPT !.pc = "loop", !.variant = "raw", !.n = n,
                          !.degradation_term = degradation_term,
                          !.iterations = iterations,
                          !.soiling_max = soiling_max, !.w = Ones(n)]
    /\ UNCHANGED <<obj, trace, bp>>

\* v2, lines 25-46: the problem of iteration i.  s2[365:] and s2[:-365] are
\* empty when n <= 365; whether cvxpy accepts the empty expressions depends
\* on its version, so both outcomes are possible.
build_v2 ==
    /\ so.pc = "loop" /\ so.variant = "v2" /\ so.i < so.iterations
    /\ \E slicesOk \in (IF so.n <= YearLen THEN BOOLEAN ELSE {TRUE}) :
          IF slicesOk
            THEN so' = [so EXCEPT !.pc = "solve",
                           !.prob = [tag |-> "problem", cons |-> Constraints_v2,
                                     frozen |-> {}, w |-> so.w]]
            ELSE so' = [so EXCEPT !.pc = "raised",
                           !.error = [NoError EXCEPT !.kind = "ValueError"]]
    /\ UNCHANGED <<obj, trace, bp>>

\* raw, lines 94-118: the problem of iteration i
build_raw ==
    /\ so.pc = "loop" /\ so.variant = "raw" /\ so.i < so.iterations
    /\ so' = [so EXCEPT !.pc = "solve",
                 !.prob = [tag |-> "problem",
                           cons |-> Constraints_raw(so.n, so.degradation_term,
                                                    so.zero_set),
                           frozen |-> so.zero_set, w |-> so.w],
                 !.everFrozen = @ \cup so.zero_set]
    /\ UNCHANGED <<obj, trace, bp>>

\* the part of a solve that both variants share: the call count and the
\* first solve that did not end optimal
Solved(outcome) ==
    [so EXCEPT !.solves = @ + 1,
               !.badAt = IF @ = -1 /\ outcome # "optimal" THEN so.i ELSE @,
               !.badStatus = IF so.badAt = -1 /\ outcome # "optimal"
                                THEN outcome ELSE @]

\* how the call ends when solve() raises, or when the variables are left
\* without a value and np.abs(None) raises
SolveRaises(outcome) ==
    [Solved(outcome) EXCEPT
        !.pc = "raised",
        !.sol = IF outcome = "SolverError" THEN @ ELSE None,
        !.error = [NoError EXCEPT !.kind = IF outcome = "SolverError"
                                              THEN "SolverError" ELSE "TypeError"]]

\* v2, lines 47-48: solve and reweight
solve_v2 ==
    /\ so.pc = "solve" /\ so.variant = "v2"
    /\ \E outcome \in SolveOutcomes :
          IF outcome \in ValueStatuses
            THEN \E sol \in Feasible_v2(so.n) :
                    so' = [Solved(outcome) EXCEPT
                              !.pc = "loop", !.sol = sol, !.i = @ + 1,
                              !.w = Reweight_v2(sol)]
            ELSE so' = SolveRaises(outcome)
    /\ UNCHANGED <<obj, trace, bp>>

\* raw, lines 119-121: solve, reweight and recompute zero_set
solve_raw ==
    /\ so.pc = "solve" /\ so.variant = "raw"
    /\ \E outcome \in SolveOutcomes :
          IF outcome \in ValueStatuses
            THEN \E sol \in Feasible_raw(so.n, so.soiling_max, so.prob.frozen) :
                    so' = [Solved(outcome) EXCEPT
                              !.pc = "loop", !.sol = sol, !.i = @ + 1,
                              !.w = Reweight_raw(sol),
                              !.zero_set = ZeroSet(sol)]
            ELSE so' = SolveRaises(outcome)
    /\ UNCHANGED <<obj, trace, bp>>

\* lines 50 and 122: return the values of the last solve
return_values ==
    /\ so.pc = "loop" /\ so.i = so.iterations
    /\ so' = [so EXCEPT !.pc = "returned"]
    /\ UNCHANGED <<obj, trace, bp>>

-----------------------------------------------------------------------------
vars == <<obj, trace, bp, so>>

InitShade ==
    /\ obj = [o \in Objs |-> NewObject]
    /\ trace = [o \in Objs |-> NewTrace]

Init ==
    /\ InitShade
    /\ bp = [pc |-> "idle"]
    /\ so = Idle

Next ==
    \/ \E o \in Objs, power \in PowerArgs, solver \in SolverArgs, verbose \in BOOLEAN :
          run(o, power, solver, verbose)
    \/ \E o \in Objs : analyze_yearly_energy(o)

Spec == Init /\ [][Next]_vars

\* batch_process applied to every input matrix and mask within the bounds
InitBatch ==
    /\ InitShade
    /\ \E data \in [Cols -> Column], mask \in [Cols -> MaskColumn],
          power \in 1 .. MaxPower :
          bp = [pc |-> "call", data |-> data, mask |-> mask, power |-> power,
                result |-> None]
    /\ so = Idle

NextBatch == batch_process

SpecBatch == InitBatch /\ [][NextBatch]_vars

NextSoiling ==
    \/ \E n \in Lens, iterations \in 1 .. MaxIter : call_v2(n, iterations)
    \/ \E n \in Lens, degradation_term \in BOOLEAN, iterations \in 1 .. MaxIter,
          soiling_max \in SoilingMaxArgs :
          call_raw(n, degradation_term, iterations, soiling_max)
    \/ build_v2
    \/ build_raw
    \/ solve_v2
    \/ solve_raw
    \/ return_values

SpecSoiling == Init /\ [][NextSoiling]_vars

-----------------------------------------------------------------------------
(* Properties of ShadeAnalysis *)

CachedFields(o) ==
    <<obj[o].data_normalized, obj[o].data_transformed, obj[o].osd_problem>>

\* C1: once has_run is true, every later step (a run() with any arguments, or
\* analyze_yearly_energy) calls neither transform_data nor solve() and leaves
\* data_normalized, data_transformed and osd_problem as they are; solve() is
\* called at most once per object.
C1_CachedRunIsNoOp ==
    /\ [](\A o \in Objs : trace[o].solves <= 1)
    /\ [][\A o \in Objs : has_run(o) =>
            /\ CachedFields(o)' = CachedFields(o)
            /\ trace'[o].transforms = trace[o].transforms
            /\ trace'[o].solves = trace[o].solves]_vars

\* a run() was made on an object whose has_run was already true
C1_Witness ==
    \E o \in Objs : has_run(o) /\ trace[o].skipped /\ trace[o].solves = 1

FailedSolve(o) == trace[o].status \notin {"none", "optimal"}

\* C2: after a run() whose solve failed (raised, or ended non-optimal) has_run
\* is false, no component value is published, and no later run() or
\* analyze_yearly_energy() skips the solve and reads the failed problem.
C2_FailedSolveNotCached ==
    \A o \in Objs : FailedSolve(o) =>
        /\ ~has_run(o)
        /\ obj[o].clear_sky_component.tag # "value"
        /\ obj[o].shade_component.tag # "value"
        /\ ~trace[o].skipped
        /\ trace[o].analyze # "raised_solve_skipped"

\* C3: a solve that ends with a status other than optimal makes run() end in
\* a distinct failure that carries the status; run() never returns normally
\* with the components taken from the unsolved problem.
C3_NonOptimalSurfaces ==
    \A o \in Objs : (trace[o].solved /\ FailedSolve(o)) =>
        /\ trace[o].result = "OptimizationFailed"
        /\ trace[o].carried = trace[o].status

\* C5: the state query (has_run) tells "not yet run", "run and failed" and
\* "run and succeeded" apart: two objects in different situations never give
\* the same answer.
C5_QueryDistinguishes ==
    \A a, b \in Objs :
        trace[a].situation # trace[b].situation => has_run(a) # has_run(b)

-----------------------------------------------------------------------------
(* Properties of batch_process *)

\* C6: every output column whose resampled sum is positive sums to the sum of
\* the input column over the rows where the daytime mask is true.
C6_EnergyPreservedOverMask ==
    (bp.pc = "done" /\ bp.result.tag = "output") =>
        \A c \in Cols :
            LET col == bp.result.cols[c] IN
            col.scaled =>
                SumSeq(col.num) = SumSeq(Masked(bp.data[c], bp.mask[c], 1)) * col.den

-----------------------------------------------------------------------------
(* Properties of the soiling decompositions *)

\* the soiling trend of a solution: s3 in v2, s1 in the raw variant
SoilingTrend(sol) == IF so.variant = "v2" THEN sol.s3 ELSE sol.s1

HasValues == so.sol # None

\* C4: when the solve of iteration i ends non-optimal, the call ends in a
\* failure that carries i and the solver status, and nothing is solved,
\* reweighted or returned after it.
C4_NonOptimalIterationSurfaces ==
    so.badAt # -1 =>
        /\ so.pc = "raised"
        /\ so.error.kind = "OptimizationFailed"
        /\ so.error.iteration = so.badAt
        /\ so.error.status = so.badStatus
        /\ so.solves = so.badAt + 1
        /\ so.i = so.badAt

\* C7: for a series shorter than 0.75 * 365 the problem of every iteration,
\* in both variants, holds the constraint s2 == 0.
C7_ShortSeriesForcesSeasonalZero ==
    (so.pc = "solve" /\ ShortSeries(so.n)) => "s2_zero" \in so.prob.cons

\* C8 as stated: every soiling trend a solve returns is non-positive at every
\* entry and at most soiling_max.
C8_Original ==
    (so.pc \in {"loop", "returned"} /\ HasValues) =>
        \A p \in Tracked(so.n) :
            /\ SoilingTrend(so.sol)[p] <= 0
            /\ so.variant = "raw" => SoilingTrend(so.sol)[p] <= so.soiling_max

\* C8 amended: the soiling trend of soiling_seperation is at most soiling_max
\* at every entry, and the soiling trend of soiling_seperation_algorithm_v2
\* is non-positive at every entry.
C8_TrendCapped ==
    (so.pc \in {"loop", "returned"} /\ HasValues) =>
        \A p \in Tracked(so.n) :
            IF so.variant = "raw"
                THEN SoilingTrend(so.sol)[p] <= so.soiling_max
                ELSE SoilingTrend(so.sol)[p] <= 0

\* a raw decomposition under the default cap is returned with a positive entry
\* in its soiling trend
C8_Witness ==
    /\ so.pc = "returned" /\ so.variant = "raw"
    /\ so.soiling_max = DefaultSoilingMax
    /\ \E p \in Tracked(so.n) : so.sol.s1[p] > 0

\* the weights the claim describes, from the soiling trend of the last solve
ClaimedWeights ==
    LET eps == IF so.variant = "v2" THEN eps_v2 ELSE eps_raw
        scale == IF so.variant = "v2" THEN 1 ELSE ReweightScale
        d2 == Diff2(SoilingTrend(so.sol))
    IN  [k \in 1 .. Len(d2) |-> [num |-> Unit, den |-> eps + scale * Abs(d2[k])]]

\* C9: the first problem is weighted by ones, and every later problem by
\* 1 / (eps + scale * |2nd difference of the soiling trend of the solve before|).
C9_WeightsFromSoilingTrend ==
    so.pc = "solve" =>
        so.prob.w = (IF so.i = 0 THEN Ones(so.n) ELSE ClaimedWeights)

\* C10: the raw variant's first problem freezes nothing, a position frozen in
\* one problem is in zero_set and frozen in every later problem of the call,
\* and the v2 variant never freezes anything.
C10_FrozenSetGrows ==
    /\ so.pc = "solve" =>
          /\ (so.variant = "v2" \/ so.i = 0) =>
                (so.prob.frozen = {} /\ "freeze" \notin so.prob.cons)
          /\ so.everFrozen \subseteq so.prob.frozen
          /\ (so.prob.frozen # {}) <=> ("freeze" \in so.prob.cons)
    /\ so.everFrozen \subseteq so.zero_set
    /\ so.variant = "v2" => so.zero_set = {}

\* the third problem of a raw call freezes a position that an earlier problem
\* had frozen, and the solve between them left that difference non-zero
C10_Witness ==
    /\ so.pc = "solve" /\ so.variant = "raw" /\ so.i = 2
    /\ \E p \in so.prob.frozen : Diff1(so.sol.s1)[p] # 0

=============================================================================
